---- MODULE Spec2Model ----
(***************************************************************************)
(* Model of the ScienceDirect client (src/src/sciencedirect.py) and of the *)
(* research agent's entry point (src/src/agent.py).                        *)
(*                                                                         *)
(* JSON values are tagged records [t, s, l]: t is the JSON type, s the     *)
(* text of a string (or of the "$" / "@href" member of an object), l the   *)
(* elements of a list.  Python's None is the value None; a dict.get() on a *)
(* key that is not there is Missing.                                       *)
(***************************************************************************)
EXTENDS Integers, Sequences, FiniteSets, Bags, TLC

VARIABLES env, client, inflight, nreq, request, outcome, answer, doc, normalized, conn,
          chat

vars == <<env, client, inflight, nreq, request, outcome, answer, doc, normalized, conn,
          chat>>

\* ------------------------------------------------------------------ bounds
\* Longest dc:creator list of a normalizer input.
MaxCreators == 2
\* Longest entry list of a search-results envelope.
MaxEntries == 2
\* Requests one run of the model may issue.
MaxCalls == 2
\* Lines one chat session reads.
MaxTurns == 2
\* Largest limit a caller passes to search_articles.
MaxLimit == 202
\* Characters of the longest upstream error body.
MaxBody == 501

\* --------------------------------------------------------------- JSON values
None == "<None>"

Missing == [t |-> "missing", s |-> "", l |-> <<>>]
Null == [t |-> "null", s |-> "", l |-> <<>>]
Str(x) == [t |-> "str", s |-> x, l |-> <<>>]
\* An object whose text member ("$" of a creator, "@href" of a link) is x.
Obj(x) == [t |-> "obj", s |-> x, l |-> <<>>]
\* A non-empty object without the text member.
ObjNoText == [t |-> "obj_notext", s |-> "", l |-> <<>>]
List(xs) == [t |-> "list", s |-> "", l |-> xs]

IsStr(v) == v.t = "str"
IsDict(v) == v.t \in {"obj", "obj_notext"}
IsList(v) == v.t = "list"

\* Python truthiness of the value dict.get(key) returns.
Truthy(v) ==
    CASE v.t = "missing" -> FALSE
      [] v.t = "null" -> FALSE
      [] v.t = "str" -> v.s # ""
      [] v.t = "list" -> v.l # <<>>
      [] OTHER -> TRUE

\* c.get("$", "") / link.get("@href") on an object.
GetText(c, default) == IF c.t = "obj" THEN c.s ELSE default

\* str(c) of a list element that is not a dict.
PyStr(c) == IF c.t = "str" THEN c.s ELSE IF c.t = "null" THEN "None" ELSE "<repr>"

RECURSIVE FilterSeq(_, _)
\* [a for a in q if a]: the elements of q outside `drop`, in order.
FilterSeq(q, drop) ==
    IF q = <<>> THEN <<>>
    ELSE IF Head(q) \in drop THEN FilterSeq(Tail(q), drop)
    ELSE <<Head(q)>> \o FilterSeq(Tail(q), drop)

\* ------------------------------------------------------------- normalizers
\* Variant of _extract_authors that takes lists only.
_extract_authors_lists_only(entry) ==
    IF Truthy(entry.creator) /\ IsList(entry.creator) THEN entry.creator.l ELSE <<>>

\* _extract_authors: the Python objects put in the authors list of a search
\* entry (not yet validated as strings).
_extract_authors(entry) ==
    LET creator == entry.creator IN
    IF Truthy(creator)
    THEN IF IsStr(creator) THEN <<creator>>
         ELSE IF IsList(creator) THEN creator.l
         ELSE <<>>
    ELSE <<>>

\* _extract_authors_from_article: authors of a full-text core-data object.
_extract_authors_from_article(core_data) ==
    LET creator == core_data.creator
        authors ==
            IF IsDict(creator) THEN <<GetText(creator, "")>>
            ELSE IF IsList(creator)
            THEN [i \in 1..Len(creator.l) |->
                    IF IsDict(creator.l[i]) THEN GetText(creator.l[i], "")
                    ELSE PyStr(creator.l[i])]
            ELSE IF Truthy(creator) THEN <<PyStr(creator)>>
            ELSE <<>>
    IN FilterSeq(authors, {"", None})

\* Variant of PyValue for entry.get(key, ""): a missing field becomes "".
PyValueEmptyDefault(v) ==
    IF v.t = "missing" THEN "" ELSE IF v.t = "null" THEN None
    ELSE IF v.t = "str" THEN v.s ELSE "<object>"

\* dict.get(key) of an optional field, as the Python value pydantic receives.
PyValue(v) == IF v.t \in {"missing", "null"} THEN None ELSE IF v.t = "str" THEN v.s ELSE "<object>"

\* Optional[str]: None or a str.
OptionalStrOk(v) == v.t \in {"missing", "null", "str"}

\* entry.get("link", [{}])[0].get("@href") if entry.get("link") else None
LinkHref(link) ==
    IF Truthy(link) /\ IsList(link) THEN GetText(link.l[1], None) ELSE None

\* The exception the link expression raises, "" if none.  link[0] of a
\* non-empty string, or of a list whose first element is no object, has no
\* .get (AttributeError); an object has no key 0 (KeyError).
LinkExc(link) ==
    IF ~Truthy(link) THEN ""
    ELSE IF IsDict(link) THEN "KeyError"
    ELSE IF IsList(link) /\ IsDict(link.l[1]) THEN ""
    ELSE "AttributeError"

\* The link expression raises unless link is falsy or a list of objects.
LinkOk(link) == LinkExc(link) = ""

\* Variant of TitleOf for entry.get("dc:title", ""): no placeholder.
TitleOfEmptyDefault(e) == IF e.title.t = "missing" THEN "" ELSE PyValue(e.title)

\* entry.get("dc:title", "No title")
TitleOf(e) == IF e.title.t = "missing" THEN "No title" ELSE PyValue(e.title)

\* entry.get("prism:teaser", entry.get("dc:description"))
SearchAbstract(e) == IF e.teaser.t = "missing" THEN e.description ELSE e.teaser

\* Article(...) of one search entry validates: title: str, authors: List[str],
\* the rest Optional[str].
SearchEntryOk(e) ==
    /\ e.title.t \in {"missing", "str"}
    /\ \A i \in 1..Len(_extract_authors(e)) : IsStr(_extract_authors(e)[i])
    /\ OptionalStrOk(SearchAbstract(e))
    /\ OptionalStrOk(e.doi)
    /\ OptionalStrOk(e.pii)
    /\ OptionalStrOk(e.publicationName)
    /\ OptionalStrOk(e.coverDate)

\* The exception the Article(...) expression of one search entry raises, ""
\* if none: its arguments are evaluated, the link expression among them,
\* before the model validates them.
SearchEntryExc(e) ==
    IF ~LinkOk(e.link) THEN LinkExc(e.link)
    ELSE IF ~SearchEntryOk(e) THEN "ValidationError"
    ELSE ""

SearchEntryArticle(e) ==
    [title |-> TitleOf(e),
     authors |-> [i \in 1..Len(_extract_authors(e)) |-> _extract_authors(e)[i].s],
     abstract |-> PyValue(SearchAbstract(e)),
     doi |-> PyValue(e.doi),
     pii |-> PyValue(e.pii),
     publication_name |-> PyValue(e.publicationName),
     publication_date |-> PyValue(e.coverDate),
     url |-> LinkHref(e.link)]

\* Results of a normalizer or of a try body: the value returned, or the
\* exception raised, as its class exc and its text str(e).
Returned(articles) == [ok |-> TRUE, articles |-> articles, exc |-> "", text |-> ""]
RaisedWith(exc, text) == [ok |-> FALSE, articles |-> <<>>, exc |-> exc, text |-> text]
\* An exception the program raises itself or the JSON decoder or pydantic
\* raises: its text is not spelled out, the class name stands for it.
Raised(exc) == RaisedWith(exc, exc)

\* for entry in entries, up to the first entry whose Article(...) raises:
\* the exception of that entry, "" if no entry raises.
FirstEntryExc(entries) ==
    LET bad == {i \in 1..Len(entries) : SearchEntryExc(entries[i]) # ""} IN
    IF bad = {} THEN ""
    ELSE SearchEntryExc(entries[CHOOSE i \in bad : \A j \in bad : i <= j])

\* Iterating entries that is no list: None is not iterable (TypeError); the
\* characters of a string and the keys of an object have no .get
\* (AttributeError).
NotListExc(entries) == IF entries.t = "null" THEN "TypeError" ELSE "AttributeError"

\* Variant of _parse_search_results that indexes data["search-results"]["entry"]
\* and so raises where a key is missing.
_parse_search_results_indexing(data) ==
    IF ~data.envelope \/ data.entry.t = "missing" THEN Raised("KeyError")
    ELSE IF data.entry = Str("") THEN Returned(<<>>)
    ELSE IF ~IsList(data.entry) THEN Raised(NotListExc(data.entry))
    ELSE IF FirstEntryExc(data.entry.l) # "" THEN Raised(FirstEntryExc(data.entry.l))
    ELSE Returned([i \in 1..Len(data.entry.l) |-> SearchEntryArticle(data.entry.l[i])])

\* _parse_search_results.  data is [envelope, entry]: envelope says whether
\* "search-results" is there, entry is its "entry" member.
_parse_search_results(data) ==
    LET entries == IF data.envelope THEN data.entry ELSE Missing IN
    IF entries.t = "missing" \/ entries = Str("") THEN Returned(<<>>)
    ELSE IF ~IsList(entries) THEN Raised(NotListExc(entries))
    ELSE IF FirstEntryExc(entries.l) # "" THEN Raised(FirstEntryExc(entries.l))
    ELSE Returned([i \in 1..Len(entries.l) |-> SearchEntryArticle(entries.l[i])])

\* A JSON object with none of the fields the normalizers read.
EmptyObject ==
    [title |-> Missing, creator |-> Missing, teaser |-> Missing, description |-> Missing,
     doi |-> Missing, pii |-> Missing, publicationName |-> Missing, coverDate |-> Missing,
     link |-> Missing]

\* data.get("full-text-retrieval-response", {}).get("coredata", {})
CoreData(data) == IF data.envelope THEN data.coredata ELSE EmptyObject

\* The abstract _parse_article settles on.  data is [envelope, coredata,
\* original, raw]: original is the type of originalText, raw its
\* xocs:doc / xocs:serial-item / xocs:raw-text member.
ArticleAbstract(data) ==
    LET core == CoreData(data)
        raw == IF data.envelope /\ data.original = "dict" THEN data.raw ELSE Missing
        first == IF data.envelope /\ data.original = "str" THEN Null
                 ELSE IF raw.t = "missing" THEN Str("") ELSE raw
    IN IF Truthy(first) THEN first ELSE core.description

ArticleOk(data) ==
    LET core == CoreData(data) IN
    /\ core.title.t \in {"missing", "str"}
    /\ OptionalStrOk(ArticleAbstract(data))
    /\ OptionalStrOk(core.doi)
    /\ OptionalStrOk(core.pii)
    /\ OptionalStrOk(core.publicationName)
    /\ OptionalStrOk(core.coverDate)

\* _parse_article.
_parse_article(data) ==
    LET core == CoreData(data) IN
    IF ~LinkOk(core.link) THEN Raised(LinkExc(core.link))
    ELSE IF ~ArticleOk(data) THEN Raised("ValidationError")
    ELSE Returned(<<[title |-> TitleOf(core),
                     authors |-> _extract_authors_from_article(core),
                     abstract |-> PyValue(ArticleAbstract(data)),
                     doi |-> PyValue(core.doi),
                     pii |-> PyValue(core.pii),
                     publication_name |-> PyValue(core.publicationName),
                     publication_date |-> PyValue(core.coverDate),
                     url |-> LinkHref(core.link)]>>)

\* ------------------------------------------------------------------ client
\* a or b
PyOr(a, b) == IF a \notin {None, ""} THEN a ELSE b

\* A text the code takes apart (lower-cases, slices) is the sequence of its
\* characters.  The ASCII letters, upper case and lower case, in order:
UpperLetters ==
    <<"A", "B", "C", "D", "E", "F", "G", "H", "I", "J", "K", "L", "M",
      "N", "O", "P", "Q", "R", "S", "T", "U", "V", "W", "X", "Y", "Z">>
LowerLetters ==
    <<"a", "b", "c", "d", "e", "f", "g", "h", "i", "j", "k", "l", "m",
      "n", "o", "p", "q", "r", "s", "t", "u", "v", "w", "x", "y", "z">>

\* ch.lower() of one character
LowerChar(ch) ==
    IF \E k \in DOMAIN UpperLetters : UpperLetters[k] = ch
    THEN LowerLetters[CHOOSE k \in DOMAIN UpperLetters : UpperLetters[k] = ch]
    ELSE ch

\* s.lower()
Lower(s) == [i \in 1..Len(s) |-> LowerChar(s[i])]

\* The environment variable DEBUG: not set, or set to a text.
Unset == [set |-> FALSE, text |-> <<>>]
Text(chars) == [set |-> TRUE, text |-> chars]

\* os.getenv(name, default) of such a variable
Getenv(v, default) == IF v.set THEN v.text ELSE default

\* debug or os.getenv("DEBUG", "").lower() in ("true", "1", "yes")
DebugOf(debug, e) ==
    debug \/ Lower(Getenv(e.DEBUG, <<>>))
                \in {<<"t", "r", "u", "e">>, <<"1">>, <<"y", "e", "s">>}

\* Variant of HeadersOf that sets the token headers whether or not a token
\* is configured.
HeadersOfUnconditional(api_key, auth_token, inst_token) ==
    {<<"X-ELS-APIKey", api_key>>, <<"Accept", "application/json">>,
     <<"X-ELS-Authtoken", auth_token>>, <<"X-ELS-Insttoken", inst_token>>}

\* The headers __init__ builds, as (name, value) pairs.
HeadersOf(api_key, auth_token, inst_token) ==
    {<<"X-ELS-APIKey", api_key>>, <<"Accept", "application/json">>}
    \cup (IF auth_token \notin {None, ""} THEN {<<"X-ELS-Authtoken", auth_token>>} ELSE {})
    \cup (IF inst_token \notin {None, ""} THEN {<<"X-ELS-Insttoken", inst_token>>} ELSE {})

\* No ScienceDirectClient has been constructed.
NoArgs == [api_key |-> None, auth_token |-> None, inst_token |-> None, debug |-> FALSE]
NoClient ==
    [state |-> "none", args |-> NoArgs, api_key |-> None, auth_token |-> None,
     inst_token |-> None, debug |-> FALSE, headers |-> {}, error |-> ""]

\* Variant of KeyRejected: "if self.api_key is None", which lets "" through.
KeyRejectedOnlyNone(api_key) == api_key = None

\* if not self.api_key
KeyRejected(api_key) == api_key \in {None, ""}

\* ScienceDirectClient.__init__ under environment e: the instance, or the
\* ValueError raised (state "raised": no instance exists).
ScienceDirectClient(args, e) ==
    LET api_key == PyOr(args.api_key, e.ELSEVIER_API_KEY)
        auth_token == PyOr(args.auth_token, e.ELSEVIER_AUTH_TOKEN)
        inst_token == PyOr(args.inst_token, e.ELSEVIER_INST_TOKEN)
    IN IF KeyRejected(api_key)
       THEN [NoClient EXCEPT !.state = "raised", !.args = args,
                             !.error = "Elsevier API key is required. Set ELSEVIER_API_KEY in .env"]
       ELSE [state |-> "ok", args |-> args, api_key |-> api_key,
             auth_token |-> auth_token, inst_token |-> inst_token,
             debug |-> DebugOf(args.debug, e),
             headers |-> HeadersOf(api_key, auth_token, inst_token), error |-> ""]

\* API max is 200
ApiMax == 200

Min(a, b) == IF a < b THEN a ELSE b

\* Variant of Count that passes the limit on as it is.
CountUnclamped(limit) == limit

\* params["count"] of search_articles
Count(limit) == Min(limit, ApiMax)

\* timeout=30.0 of client.get
Timeout == 30

NoRequest == [op |-> "none", url |-> "", headers |-> {}, count |-> 0, timeout |-> 0]
\* An invocation of a client operation: its arguments, who made it, the
\* request it sent, and how its try block was left ("none" while it is
\* suspended at await client.get(...), "return" or "raise" while it is
\* suspended in the exit of async with, its connection still open).
NoCall == [op |-> "none", limit |-> 0, pii |-> "", via |-> "none", sent |-> NoRequest,
           exit |-> "none"]

SearchRequest(c, limit) ==
    [op |-> "search", url |-> "SEARCH_URL", headers |-> c.headers, count |-> Count(limit),
     timeout |-> Timeout]
GetRequest(c, pii) ==
    [op |-> "get", url |-> pii, headers |-> c.headers, count |-> 0, timeout |-> Timeout]

\* response.raise_for_status() passes
IsSuccess(status) == status \in 200..299

\* A ValueError message: its fixed text, the PII it names, and what the
\* handler puts into it from the response (status -1, body <<>>, hdrs FALSE:
\* not put in); cause is str(e) of the underlying exception, where the
\* handler appends it.
Msg(text, pii, status, body, hdrs, cause) ==
    [text |-> text, pii |-> pii, status |-> status, body |-> body, hdrs |-> hdrs,
     cause |-> cause]
NoMsg == Msg("", "", -1, <<>>, FALSE, "")

\* Variant of DetailMsg that puts error_detail in the message in both modes.
DetailMsgAlways(c, text, pii, resp) == Msg(text, pii, resp.status, resp.text, TRUE, "")

\* "Debug: {json.dumps(error_detail) if self.debug else 'Enable debug mode for details'}"
DetailMsg(c, text, pii, resp) ==
    IF c.debug THEN Msg(text, pii, resp.status, resp.text, TRUE, "")
    ELSE Msg(text, pii, -1, <<>>, FALSE, "")

\* The characters of an error body the generic failure shows: [:500]
BodyShown == 500

\* s[:n]
Prefix(s, n) == SubSeq(s, 1, Min(Len(s), n))

\* "{status_code} - {text[:500] if self.debug else 'Enable debug mode for full error'}"
StatusMsg(c, text, resp) ==
    Msg(text, "", resp.status, IF c.debug THEN Prefix(resp.text, BodyShown) ELSE <<>>,
        FALSE, "")

NoResult == [op |-> "none", kind |-> "none", articles |-> <<>>, error |-> NoMsg]
Return(op, articles) == [op |-> op, kind |-> "return", articles |-> articles, error |-> NoMsg]
Raise(op, msg) == [op |-> op, kind |-> "raise", articles |-> <<>>, error |-> msg]

\* The try body of search_articles: client.get, raise_for_status, json, parse.
\* When no response arrives, await client.get(...) raises the exception the
\* transport gives, whatever its class and text.
SearchTry(resp) ==
    IF resp.kind # "http" THEN RaisedWith(resp.exc, resp.exctext)
    ELSE IF ~IsSuccess(resp.status) THEN Raised("HTTPStatusError")
    ELSE IF ~resp.json THEN Raised("JSONDecodeError")
    ELSE _parse_search_results(resp.data)

\* except httpx.HTTPStatusError of search_articles
SearchStatusError(c, resp) ==
    IF resp.status = 401
    THEN DetailMsg(c, "Invalid API key or authentication failed. Debug: ", "", resp)
    ELSE IF resp.status = 429
    THEN DetailMsg(c, "Rate limit exceeded. Please try again later. Debug: ", "", resp)
    ELSE StatusMsg(c, "API request failed: ", resp)

\* Variant of search_articles whose catch-all also catches the ValueError the
\* status handler raises, and wraps it again.
search_articles_rewrapped(c, resp) ==
    LET r == SearchTry(resp) IN
    IF r.ok THEN Return("search", r.articles)
    ELSE Raise("search", Msg("Search failed: ", "", -1, <<>>, FALSE,
                             IF r.exc = "HTTPStatusError" THEN "ValueError"
                             ELSE r.text))

\* What search_articles hands its caller for upstream response resp.
search_articles(c, resp) ==
    LET r == SearchTry(resp) IN
    IF r.ok THEN Return("search", r.articles)
    ELSE IF r.exc = "HTTPStatusError" THEN Raise("search", SearchStatusError(c, resp))
    ELSE Raise("search", Msg("Search failed: ", "", -1, <<>>, FALSE, r.text))

\* The try body of get_article.
GetTry(resp) ==
    IF resp.kind # "http" THEN RaisedWith(resp.exc, resp.exctext)
    ELSE IF ~IsSuccess(resp.status) THEN Raised("HTTPStatusError")
    ELSE IF ~resp.json THEN Raised("JSONDecodeError")
    ELSE _parse_article(resp.data)

\* Variant of GetStatusError without the 404 branch.
GetStatusErrorNo404(c, pii, resp) == StatusMsg(c, "Failed to retrieve article: ", resp)

\* except httpx.HTTPStatusError of get_article
GetStatusError(c, pii, resp) ==
    IF resp.status = 404
    THEN DetailMsg(c, "Article with PII {pii} not found. Debug: ", pii, resp)
    ELSE StatusMsg(c, "Failed to retrieve article: ", resp)

\* What get_article hands its caller for upstream response resp.
get_article(c, pii, resp) ==
    LET r == GetTry(resp) IN
    IF r.ok THEN Return("get", r.articles)
    ELSE IF r.exc = "HTTPStatusError" THEN Raise("get", GetStatusError(c, pii, resp))
    ELSE Raise("get", Msg("Article retrieval failed: ", "", -1, <<>>, FALSE, r.text))

\* ------------------------------------------------------------------- agent
NoResponse == [answer |-> "", cause |-> "", articles |-> <<>>, summary |-> ""]

\* The except branch of answer_research_question: the fallback response for
\* exception text e.
FallbackResponse(e) ==
    [answer |-> "I encountered an error while researching: ", cause |-> e,
     articles |-> <<>>, summary |-> "Unable to complete the research due to an error."]

Answered(response) == [kind |-> "return", response |-> response, error |-> ""]
Propagated(error) == [kind |-> "raise", response |-> NoResponse, error |-> error]

\* Variant of RunAgent without the except branch: the exception propagates.
RunAgentUnguarded(run) ==
    IF run.kind = "ok" THEN Answered(run.data) ELSE Propagated(run.exc)

\* try: result = await research_agent.run(...); return result.data
\* except Exception as e: return ResearchResponse(...)
RunAgent(run) ==
    IF run.kind = "ok" THEN Answered(run.data) ELSE Answered(FallbackResponse(run.exc))

\* client = ScienceDirectClient(api_key=api_key, inst_token=inst_token, debug=debug)
AnswerClient(args, e) ==
    ScienceDirectClient([api_key |-> args.api_key, auth_token |-> None,
                         inst_token |-> args.inst_token, debug |-> args.debug], e)

\* answer_research_question: the client is constructed before the try.
answer_research_question(args, e, run) ==
    LET c == AnswerClient(args, e)
    IN IF c.state = "raised" THEN Propagated(c.error) ELSE RunAgent(run)

\* debug of chat_with_agent: os.getenv("DEBUG", "").lower() in ("true", "1", "yes")
\* client = ScienceDirectClient(api_key=api_key, inst_token=inst_token, debug=debug)
ChatClient(args, e) ==
    ScienceDirectClient([api_key |-> args.api_key, auth_token |-> None,
                         inst_token |-> args.inst_token, debug |-> DebugOf(FALSE, e)], e)

\* The characters str.strip() removes: those str.isspace() holds for.  The
\* ones that have no escape in a string of the model are written by name.
Whitespace ==
    {" ", "\t", "\n", "\r", "\f", "<VT>", "<FS>", "<GS>", "<RS>", "<US>", "<NEL>", "<NBSP>",
     "<OGHAM SPACE>", "<EN QUAD>", "<EM QUAD>", "<EN SPACE>", "<EM SPACE>",
     "<THREE-PER-EM SPACE>", "<FOUR-PER-EM SPACE>", "<SIX-PER-EM SPACE>", "<FIGURE SPACE>",
     "<PUNCTUATION SPACE>", "<THIN SPACE>", "<HAIR SPACE>", "<LINE SEPARATOR>",
     "<PARAGRAPH SEPARATOR>", "<NARROW NBSP>", "<MEDIUM MATHEMATICAL SPACE>",
     "<IDEOGRAPHIC SPACE>"}

RECURSIVE StripLeft(_)
StripLeft(s) == IF s # <<>> /\ Head(s) \in Whitespace THEN StripLeft(Tail(s)) ELSE s

RECURSIVE StripRight(_)
StripRight(s) ==
    IF s # <<>> /\ s[Len(s)] \in Whitespace THEN StripRight(SubSeq(s, 1, Len(s) - 1)) ELSE s

\* s.strip()
Strip(s) == StripRight(StripLeft(s))

\* question.lower() in ['quit', 'exit', 'q']
IsQuit(question) ==
    Lower(question) \in {<<"q", "u", "i", "t">>, <<"e", "x", "i", "t">>, <<"q">>}

\* if x: print(x), for an optional field of an Article: None if not printed.
PrintedIf(x) == IF x \in {None, ""} THEN None ELSE x

\* The REFERENCES chat_with_agent prints: per article its title, its first
\* three authors and the optional fields that have a value.
References(articles) ==
    [i \in 1..Len(articles) |->
        [title |-> articles[i].title,
         authors |-> Prefix(articles[i].authors, 3),
         journal |-> PrintedIf(articles[i].publication_name),
         date |-> PrintedIf(articles[i].publication_date),
         doi |-> PrintedIf(articles[i].doi)]]

NoPrinted == [kind |-> "none", answer |-> "", references |-> <<>>, summary |-> "", cause |-> ""]

\* What one turn of chat_with_agent prints for the outcome run of the agent:
\* the answer, references and summary, or "Error: {e}".
ChatOutput(run) ==
    IF run.kind = "ok"
    THEN [kind |-> "answer", answer |-> run.data.answer,
          references |-> References(run.data.articles),
          summary |-> run.data.summary, cause |-> ""]
    ELSE [NoPrinted EXCEPT !.kind = "error", !.cause = run.exc]

\* Variant of tool_search_articles without the try/except: the failure goes
\* on to the agent.
tool_search_articles_propagating(r) == r

\* The agent tool search_articles around client.search_articles, whose
\* result is r: except Exception: return []
tool_search_articles(r) == IF r.kind = "raise" THEN Return("search", <<>>) ELSE r

\* The agent tool get_article_details around client.get_article, whose
\* result is r: except Exception: return None (no article).
get_article_details(r) == IF r.kind = "raise" THEN Return("get", <<>>) ELSE r

\* ------------------------------------------------------------------ inputs
RECURSIVE SeqsUpTo(_, _)
\* The sequences over S of length at most n.
SeqsUpTo(S, n) ==
    IF n = 0 THEN {<<>>}
    ELSE LET shorter == SeqsUpTo(S, n - 1) IN
         shorter \cup {Append(q, x) : q \in {r \in shorter : Len(r) = n - 1}, x \in S}

Environment(key, auth, inst, debug) ==
    [ELSEVIER_API_KEY |-> key, ELSEVIER_AUTH_TOKEN |-> auth,
     ELSEVIER_INST_TOKEN |-> inst, DEBUG |-> debug]

Environments ==
    {Environment(None, None, None, Unset),
     Environment("", "env_auth", None, Text(<<"0">>)),
     Environment("env_key", "env_auth", "env_inst", Text(<<"T", "r", "u", "e">>))}

Args(api_key, auth_token, inst_token, debug) ==
    [api_key |-> api_key, auth_token |-> auth_token, inst_token |-> inst_token,
     debug |-> debug]

\* Constructor calls: everything left to the environment, an empty key, a
\* key with an auth token, a key with an institutional token and debug.
ConstructorArgs ==
    {Args(None, None, None, FALSE),
     Args("", None, None, FALSE),
     Args("test_key", "test_auth", None, FALSE),
     Args("test_key", None, "test_token", TRUE)}

Limits == {10, ApiMax, MaxLimit}
\* The limit the agent's search tool passes on: its default (limit: int = 5).
ToolLimits == {5}
PIIs == {"S0000000000000", "S1"}

\* Elements of a dc:creator list, and the shapes of dc:creator.
CreatorElems ==
    {Str(""), Str(" "), Str("Author One"), Obj(""), Obj("Author Two"), ObjNoText}
Creators ==
    {Missing, Null} \cup CreatorElems
    \cup {List(q) : q \in SeqsUpTo(CreatorElems, MaxCreators)}

\* The entry of the search fixture with a string creator.
EntryA ==
    [title |-> Str("Title A"), creator |-> Str("Author One"),
     teaser |-> Str("teaser A"), description |-> Str("description A"),
     doi |-> Str("10.1234/a"), pii |-> Str("S0000000000000"),
     publicationName |-> Str("Test Journal"), coverDate |-> Str("2024-01-01"),
     link |-> List(<<Obj("https://example.com/a")>>)]
\* The entry of the search fixture whose creator is a list of objects.
EntryB ==
    [EntryA EXCEPT !.title = Str("Title B"),
                   !.creator = List(<<Obj("Author Two"), Obj("Author Three")>>)]
\* An entry whose creator is a list of strings.
EntryC ==
    [EntryA EXCEPT !.title = Str("Title C"),
                   !.creator = List(<<Str("Author Two"), Str("Author Three")>>)]

TextValues == {Missing, Null, Str(""), Str("text")}
LinkValues == {Missing, List(<<>>), List(<<Obj("https://example.com/a")>>),
               List(<<Obj("")>>), List(<<ObjNoText>>), Str("https://example.com/a")}

\* JSON objects the normalizers are run on: EntryA with one field varied.
Entries ==
    {[EntryA EXCEPT !.creator = c] : c \in Creators}
    \cup {[EntryA EXCEPT !.title = v] : v \in TextValues}
    \cup {[EntryA EXCEPT !.teaser = v, !.description = w] : v, w \in TextValues}
    \cup {[EntryA EXCEPT !.doi = v, !.pii = v, !.publicationName = v, !.coverDate = v] :
            v \in TextValues}
    \cup {[EntryA EXCEPT !.link = v] : v \in LinkValues}
    \cup {EntryB, EntryC, EmptyObject}

SearchData(envelope, entry) == [envelope |-> envelope, entry |-> entry]

\* Search bodies: one entry drawn from Entries, or up to MaxEntries entries of
\* the fixture, or no entries at all.
SearchDatas ==
    {SearchData(FALSE, Missing), SearchData(TRUE, Missing), SearchData(TRUE, Null)}
    \cup {SearchData(TRUE, List(<<e>>)) : e \in Entries}
    \cup {SearchData(TRUE, List(q)) : q \in SeqsUpTo({EntryA, EntryB, EntryC}, MaxEntries)}

\* The search bodies the client machine draws its responses from.
UpstreamSearchDatas ==
    {SearchData(FALSE, Missing), SearchData(TRUE, Missing), SearchData(TRUE, Null),
     SearchData(TRUE, List(<<>>)), SearchData(TRUE, List(<<EntryA>>)),
     SearchData(TRUE, List(<<EntryA, EntryB>>))}

ArticleData(envelope, coredata, original, raw) ==
    [envelope |-> envelope, coredata |-> coredata, original |-> original, raw |-> raw]

ArticleDatas ==
    {ArticleData(FALSE, EmptyObject, "missing", Missing)}
    \cup {ArticleData(TRUE, c, "missing", Missing) : c \in Entries}
    \cup {ArticleData(TRUE, [EntryA EXCEPT !.description = w], o, r) :
            w \in TextValues, o \in {"dict", "str"}, r \in TextValues \cup {ObjNoText}}

UpstreamArticleDatas ==
    {ArticleData(FALSE, EmptyObject, "missing", Missing),
     ArticleData(TRUE, EntryA, "dict", Str("raw text")),
     ArticleData(TRUE, EntryB, "missing", Missing),
     ArticleData(TRUE, [EntryA EXCEPT !.title = Null], "missing", Missing)}

NoData == SearchData(FALSE, Missing)

\* What comes back for a request: an HTTP response (status, body text, and
\* the JSON the body decodes to, if any), or no response but an exception of
\* the transport, of class exc and with text exctext.
Response(kind, status, json, data, text) ==
    [kind |-> kind, status |-> status, json |-> json, data |-> data, text |-> text,
     exc |-> "", exctext |-> ""]
TransportFailure(exc, exctext) ==
    [Response("transport", 0, FALSE, NoData, <<>>) EXCEPT !.exc = exc, !.exctext = exctext]

ErrorStatuses == {302, 401, 404, 429, 500}

\* Response bodies, as characters: a short error body, one longer than the
\* generic failure shows, a body that is no JSON, and the text of a JSON body.
ErrorBody == <<"d", "e", "n", "i", "e", "d">>
LongBody == [i \in 1..MaxBody |-> "b"]
HtmlBody == <<"<", "h", "t", "m", "l", ">">>
JsonBody == <<"{", "}">>

\* No response arrives: await client.get(...) raises an exception of the
\* transport (ConnectError, ReadError, WriteError, RemoteProtocolError,
\* ConnectTimeout, ReadTimeout, WriteTimeout, PoolTimeout, ...).  The code
\* catches them all alike (except Exception) and formats str(e) only, so the
\* cases drawn differ in the text, which may be empty for an error and for
\* a timeout, and carry a class along.
TransportFailures ==
    {TransportFailure("ConnectError", "All connection attempts failed"),
     TransportFailure("ReadError", ""),
     TransportFailure("ReadTimeout", ""),
     TransportFailure("RemoteProtocolError", "Server disconnected without sending a response.")}

\* What the upstream can answer: no answer, a status outside 2xx, a 2xx body
\* that is no JSON, or a 2xx JSON body.
Failures ==
    TransportFailures
    \cup {Response("http", st, FALSE, NoData, ErrorBody) : st \in ErrorStatuses}
    \cup {Response("http", 500, FALSE, NoData, LongBody)}
    \cup {Response("http", 200, FALSE, NoData, HtmlBody)}
SearchResponses ==
    Failures \cup {Response("http", 200, TRUE, d, JsonBody) : d \in UpstreamSearchDatas}
GetResponses ==
    Failures \cup {Response("http", 200, TRUE, d, JsonBody) : d \in UpstreamArticleDatas}

\* The Article of the tests' mock_article fixture.
MockArticle ==
    [title |-> "Test Article Title",
     authors |-> <<"Author One", "Author Two">>,
     abstract |-> "This is a test abstract about scientific research.",
     doi |-> "10.1234/test.doi",
     pii |-> "S0000000000000",
     publication_name |-> "Test Journal",
     publication_date |-> "2024-01-01",
     url |-> "https://example.com/article"]

\* An Article with more authors than the chat prints and without a DOI.
LongArticle ==
    [MockArticle EXCEPT !.authors = <<"Author One", "Author Two", "Author Three", "Author Four">>,
                        !.doi = None]

AgentResponse(articles) ==
    [answer |-> "This is a test answer based on the research.", cause |-> "",
     articles |-> articles, summary |-> "Test summary of findings."]

\* What research_agent.run does: returns a result, or raises.
RunOutcomes ==
    {[kind |-> "ok", data |-> AgentResponse(a), exc |-> ""] :
        a \in {<<>>, <<MockArticle>>, <<MockArticle, LongArticle>>}}
    \cup {[kind |-> "exc", data |-> NoResponse, exc |-> x] :
            x \in {"API Error"}}

AnswerArgs ==
    {[api_key |-> None, inst_token |-> None, debug |-> FALSE],
     [api_key |-> "", inst_token |-> None, debug |-> FALSE],
     [api_key |-> "test_key", inst_token |-> None, debug |-> FALSE],
     [api_key |-> "test_key", inst_token |-> "test_token", debug |-> TRUE]}

\* Calls of chat_with_agent(api_key, inst_token).
ChatArgs ==
    {[api_key |-> None, inst_token |-> None],
     [api_key |-> "test_key", inst_token |-> None],
     [api_key |-> "test_key", inst_token |-> "test_token"]}

\* Lines the user types at "Your question: ".
Questions ==
    {<<>>, <<" ", "\t">>, <<"q", "1">>, <<"\t", "Q", "u", "i", "t", "\r", "<NBSP>">>}

\* ------------------------------------------------------------ state machine
\* outcome: the invocation whose try block was left last, the upstream
\* response it got and what it hands its caller once its connection is
\* closed; tool is what the agent's tool wrapper makes of that, when the
\* invocation came through one.
NoResp == Response("none", 0, FALSE, NoData, <<>>)
NoOutcome == [call |-> NoCall, resp |-> NoResp, result |-> NoResult, tool |-> NoResult]
NoRun == [kind |-> "none", data |-> NoResponse, exc |-> ""]
\* answer: the invocation of answer_research_question; running while it is
\* suspended at await research_agent.run(...).
NoAnswer == [called |-> FALSE, running |-> FALSE,
             args |-> [api_key |-> None, inst_token |-> None, debug |-> FALSE],
             run |-> NoRun,
             result |-> [kind |-> "none", response |-> NoResponse, error |-> ""]]
\* chat: the invocation of chat_with_agent; state is "prompt" at input(),
\* "running" at await research_agent.run(...), "closed" after the loop,
\* "raised" if the constructor raised; turns counts the lines read, printed
\* is the output of the last turn.
NoChat == [state |-> "none", turns |-> 0, question |-> <<>>, printed |-> NoPrinted]
NoDoc == [kind |-> "none", search |-> NoData,
          article |-> ArticleData(FALSE, EmptyObject, "missing", Missing)]
NotNormalized == [done |-> FALSE, result |-> Returned(<<>>)]

\* conn: the connections open now, the connections opened and closed and
\* the client operations invoked so far.
NoConnections == [open |-> 0, opened |-> 0, closed |-> 0, calls |-> 0]

\* An operation is invoked and enters async with httpx.AsyncClient() as client
Connected(c) == [c EXCEPT !.open = c.open + 1, !.opened = c.opened + 1, !.calls = c.calls + 1]

\* Variant of Released for a client closed after the return statement only:
\* an exception skips the close.
ReleasedOnReturn(c, exit) ==
    IF exit = "return" THEN [c EXCEPT !.open = c.open - 1, !.closed = c.closed + 1] ELSE c

\* The exit of async with is over, the block having been left by return or
\* by exception: the connection is closed.
Released(c, exit) == [c EXCEPT !.open = c.open - 1, !.closed = c.closed + 1]

\* The bag of invocations b with one more c, and with one c less.
Started(b, c) == b (+) SetToBag({c})
Ended(b, c) == b (-) SetToBag({c})

\* The process starts under one environment, with no client and no request.
\* inflight holds the invocations that have not handed over their result,
\* suspended at await client.get(...) or in the exit of async with.  They
\* are coroutines independent of each other: a bag, not a queue.
Init ==
    /\ env \in Environments
    /\ client = NoClient
    /\ inflight = EmptyBag
    /\ nreq = 0
    /\ request = NoRequest
    /\ outcome = NoOutcome
    /\ answer = NoAnswer
    /\ doc = NoDoc
    /\ normalized = NotNormalized
    /\ conn = NoConnections
    /\ chat = NoChat

\* A run of the model follows one client instance: a new one is constructed
\* only while no request has been issued.
Construct(args) ==
    /\ nreq = 0
    /\ client' = ScienceDirectClient(args, env)
    /\ UNCHANGED <<env, inflight, nreq, request, outcome, answer, doc, normalized, conn, chat>>

\* client.search_articles(query, limit) up to its await: the connection is
\* open and the GET is on the wire.  Other invocations may be suspended.
\* via says who invokes: a direct caller ("client") or an agent tool ("tool").
SearchCall(via, limit) ==
    /\ client.state = "ok"
    /\ nreq < MaxCalls
    /\ inflight' = Started(inflight, [op |-> "search", limit |-> limit, pii |-> "", via |-> via,
                                      sent |-> SearchRequest(client, limit), exit |-> "none"])
    /\ request' = SearchRequest(client, limit)
    /\ nreq' = nreq + 1
    /\ conn' = Connected(conn)
    /\ UNCHANGED <<env, client, outcome, answer, doc, normalized, chat>>

\* The upstream answers the request of call, a search
\* suspended at await client.get(...): the rest of the try block and the
\* except clauses run, which settles what search_articles hands its caller,
\* and the invocation suspends in the exit of async with, its connection
\* still open.
SearchRespond(call, resp) ==
    /\ BagIn(call, inflight)
    /\ call.op = "search"
    /\ call.exit = "none"
    /\ outcome' = [call |-> call, resp |-> resp,
                    result |-> search_articles(client, resp),
                    tool |-> IF call.via = "tool"
                             THEN tool_search_articles(search_articles(client, resp))
                             ELSE NoResult]
    /\ inflight' = Started(Ended(inflight, call),
                         [call EXCEPT !.exit = search_articles(client, resp).kind])
    /\ UNCHANGED <<env, client, nreq, request, answer, doc, normalized, conn, chat>>

\* The exit of async with of call, a search, is over: its
\* connection is closed and search_articles returns or raises.
SearchClose(call) ==
    /\ BagIn(call, inflight)
    /\ call.op = "search"
    /\ call.exit # "none"
    /\ conn' = Released(conn, call.exit)
    /\ inflight' = Ended(inflight, call)
    /\ UNCHANGED <<env, client, nreq, request, outcome, answer, doc, normalized, chat>>

\* client.get_article(pii) up to its await.
GetCall(via, pii) ==
    /\ client.state = "ok"
    /\ nreq < MaxCalls
    /\ inflight' = Started(inflight, [op |-> "get", limit |-> 0, pii |-> pii, via |-> via,
                                      sent |-> GetRequest(client, pii), exit |-> "none"])
    /\ request' = GetRequest(client, pii)
    /\ nreq' = nreq + 1
    /\ conn' = Connected(conn)
    /\ UNCHANGED <<env, client, outcome, answer, doc, normalized, chat>>

\* The upstream answers the request of call, a get_article
\* suspended at await client.get(...): the rest of the try block and the
\* except clauses run, and the invocation suspends in the exit of async
\* with, its connection still open.
GetRespond(call, resp) ==
    /\ BagIn(call, inflight)
    /\ call.op = "get"
    /\ call.exit = "none"
    /\ outcome' = [call |-> call, resp |-> resp,
                    result |-> get_article(client, call.pii, resp),
                    tool |-> IF call.via = "tool"
                             THEN get_article_details(get_article(client, call.pii, resp))
                             ELSE NoResult]
    /\ inflight' = Started(Ended(inflight, call),
                         [call EXCEPT !.exit = get_article(client, call.pii, resp).kind])
    /\ UNCHANGED <<env, client, nreq, request, answer, doc, normalized, conn, chat>>

\* The exit of async with of call, a get_article, is over:
\* its connection is closed and get_article returns or raises.
GetClose(call) ==
    /\ BagIn(call, inflight)
    /\ call.op = "get"
    /\ call.exit # "none"
    /\ conn' = Released(conn, call.exit)
    /\ inflight' = Ended(inflight, call)
    /\ UNCHANGED <<env, client, nreq, request, outcome, answer, doc, normalized, chat>>

Next ==
    \/ \E args \in ConstructorArgs : Construct(args)
    \/ \E limit \in Limits : SearchCall("client", limit)
    \/ \E call \in BagToSet(inflight), resp \in SearchResponses : SearchRespond(call, resp)
    \/ \E call \in BagToSet(inflight) : SearchClose(call)
    \/ \E pii \in PIIs : GetCall("client", pii)
    \/ \E call \in BagToSet(inflight), resp \in GetResponses : GetRespond(call, resp)
    \/ \E call \in BagToSet(inflight) : GetClose(call)

Spec == Init /\ [][Next]_vars

\* answer_research_question(question, max_articles, api_key, inst_token, debug)
\* up to its await: the client is constructed; if the constructor raises, the
\* call ends there, otherwise the agent starts to run.
AnswerStart(args) ==
    /\ ~answer.called
    /\ chat.state = "none"
    /\ client = NoClient
    /\ client' = AnswerClient(args, env)
    /\ answer' = [NoAnswer EXCEPT
                    !.called = TRUE,
                    !.running = (AnswerClient(args, env).state = "ok"),
                    !.args = args,
                    !.result = IF AnswerClient(args, env).state = "ok" THEN NoAnswer.result
                               ELSE answer_research_question(args, env, NoRun)]
    /\ UNCHANGED <<env, inflight, nreq, request, outcome, doc, normalized, conn, chat>>

\* While the agent runs it calls its tools, which invoke the operations of
\* the client answer_research_question constructed.
AgentRunning == answer.running \/ chat.state = "running"
ToolSearchCall(limit) == AgentRunning /\ SearchCall("tool", limit)
ToolSearchRespond(call, resp) == AgentRunning /\ SearchRespond(call, resp)
\* client.search_articles is over; the tool returns what its try/except
\* makes of the result.
ToolSearchClose(call) == AgentRunning /\ SearchClose(call)
ToolGetCall(pii) == AgentRunning /\ GetCall("tool", pii)
ToolGetRespond(call, resp) == AgentRunning /\ GetRespond(call, resp)
ToolGetClose(call) == AgentRunning /\ GetClose(call)

\* research_agent.run(...) is over, with what it does as the input run: its
\* tool calls have finished, and answer_research_question returns.
AnswerFinish(run) ==
    /\ answer.running
    /\ inflight = EmptyBag
    /\ answer' = [answer EXCEPT !.running = FALSE, !.run = run,
                                !.result = answer_research_question(answer.args, env, run)]
    /\ UNCHANGED <<env, client, inflight, nreq, request, outcome, doc, normalized, conn, chat>>

\* chat_with_agent(api_key, inst_token) up to its first input(): the client
\* is constructed; if the constructor raises, the call ends there.
ChatStart(args) ==
    /\ chat.state = "none"
    /\ ~answer.called
    /\ client = NoClient
    /\ client' = ChatClient(args, env)
    /\ chat' = [NoChat EXCEPT !.state = IF ChatClient(args, env).state = "ok"
                                       THEN "prompt" ELSE "raised"]
    /\ UNCHANGED <<env, inflight, nreq, request, outcome, answer, doc, normalized, conn>>

\* One line is read: quit, exit or q ends the session, an empty line is
\* skipped, anything else is handed to the agent after "Searching
\* scientific literature..." is printed.
ChatInput(line) ==
    /\ chat.state = "prompt"
    /\ chat.turns < MaxTurns
    /\ chat' = [chat EXCEPT
                    !.turns = chat.turns + 1,
                    !.question = Strip(line),
                    !.state = IF IsQuit(Strip(line)) THEN "closed"
                              ELSE IF Strip(line) = <<>> THEN "prompt"
                              ELSE "running",
                    !.printed = IF IsQuit(Strip(line))
                                THEN [NoPrinted EXCEPT !.kind = "goodbye"]
                                ELSE IF Strip(line) = <<>> THEN chat.printed
                                ELSE [NoPrinted EXCEPT !.kind = "searching"]]
    /\ UNCHANGED <<env, client, inflight, nreq, request, outcome, answer, doc, normalized,
                   conn>>

\* research_agent.run(...) of the turn is over, with what it does as the
\* input run: the result or the error is printed and the loop goes on.
ChatFinish(run) ==
    /\ chat.state = "running"
    /\ inflight = EmptyBag
    /\ chat' = [chat EXCEPT !.state = "prompt", !.printed = ChatOutput(run)]
    /\ UNCHANGED <<env, client, inflight, nreq, request, outcome, answer, doc, normalized,
                   conn>>

NextAgent ==
    \/ \E args \in AnswerArgs : AnswerStart(args)
    \/ \E args \in ChatArgs : ChatStart(args)
    \/ \E line \in Questions : ChatInput(line)
    \/ \E run \in RunOutcomes : ChatFinish(run)
    \/ \E limit \in ToolLimits : ToolSearchCall(limit)
    \/ \E call \in BagToSet(inflight), resp \in SearchResponses : ToolSearchRespond(call, resp)
    \/ \E call \in BagToSet(inflight) : ToolSearchClose(call)
    \/ \E pii \in PIIs : ToolGetCall(pii)
    \/ \E call \in BagToSet(inflight), resp \in GetResponses : ToolGetRespond(call, resp)
    \/ \E call \in BagToSet(inflight) : ToolGetClose(call)
    \/ \E run \in RunOutcomes : AnswerFinish(run)

SpecAgent == Init /\ [][NextAgent]_vars

\* The normalizers as pure functions: a document is drawn, then normalized.
InitNorm ==
    /\ env = Environment(None, None, None, Unset)
    /\ client = NoClient
    /\ inflight = EmptyBag
    /\ nreq = 0
    /\ request = NoRequest
    /\ outcome = NoOutcome
    /\ answer = NoAnswer
    /\ doc \in {[NoDoc EXCEPT !.kind = "search", !.search = d] : d \in SearchDatas}
              \cup {[NoDoc EXCEPT !.kind = "article", !.article = d] : d \in ArticleDatas}
    /\ normalized = NotNormalized
    /\ conn = NoConnections
    /\ chat = NoChat

NormalizeSearch ==
    /\ doc.kind = "search"
    /\ ~normalized.done
    /\ normalized' = [done |-> TRUE, result |-> _parse_search_results(doc.search)]
    /\ UNCHANGED <<env, client, inflight, nreq, request, outcome, answer, doc, conn, chat>>

NormalizeArticle ==
    /\ doc.kind = "article"
    /\ ~normalized.done
    /\ normalized' = [done |-> TRUE, result |-> _parse_article(doc.article)]
    /\ UNCHANGED <<env, client, inflight, nreq, request, outcome, answer, doc, conn, chat>>

NextNorm == NormalizeSearch \/ NormalizeArticle

SpecNorm == InitNorm /\ [][NextNorm]_vars

\* ------------------------------------------------------------------ claims
NoKey == {None, ""}
ApiKeyHeaders(headers) == {h \in headers : h[1] = "X-ELS-APIKey"}

\* C1: a constructor call with no api_key argument and no ELSEVIER_API_KEY in
\* the environment raises the 'Elsevier API key is required' error and leaves
\* no instance; every instance has a non-empty API key; and every request
\* sent carries an X-ELS-APIKey header with a non-empty value.
C1_KeyRequiredAtConstruction ==
    /\ (client.state # "none" /\ client.args.api_key \in NoKey
            /\ env.ELSEVIER_API_KEY \in NoKey)
        => /\ client.state = "raised"
           /\ client.error = "Elsevier API key is required. Set ELSEVIER_API_KEY in .env"
           /\ request = NoRequest /\ nreq = 0
    /\ client.state = "ok" => client.api_key \notin NoKey
    /\ request.op # "none"
        => /\ client.state = "ok"
           /\ ApiKeyHeaders(request.headers) # {}
           /\ \A h \in ApiKeyHeaders(request.headers) : h[2] \notin NoKey

\* C1 witness: a construction without any key has raised.
C1_Witness ==
    /\ client.state = "raised"
    /\ client.args.api_key = None
    /\ env.ELSEVIER_API_KEY = None

\* The constructor call inside answer_research_question raises.
AnswerConstructorRaises ==
    answer.called /\ answer.args.api_key \in NoKey /\ env.ELSEVIER_API_KEY \in NoKey

\* C2: when constructing the client raises inside answer_research_question,
\* the call returns a ResearchResponse whose answer mentions the error and
\* whose articles list is empty.
C2_ConstructorErrorReturned ==
    AnswerConstructorRaises
        => /\ answer.result.kind = "return"
           /\ answer.result.response.cause # ""
           /\ answer.result.response.articles = <<>>

\* C3: when the agent run raises, answer_research_question returns the
\* fallback response (the error text in the answer, no articles, the
\* 'Unable to complete' summary); when it succeeds, its result is returned
\* unchanged.
C3_AgentFailureDegraded ==
    (answer.called /\ ~answer.running /\ ~AnswerConstructorRaises)
        => /\ answer.result.kind = "return"
           /\ answer.run.kind = "exc"
                => /\ answer.result.response.answer = "I encountered an error while researching: "
                   /\ answer.result.response.cause = answer.run.exc
                   /\ answer.result.response.articles = <<>>
                   /\ answer.result.response.summary
                        = "Unable to complete the research due to an error."
           /\ answer.run.kind = "ok" => answer.result.response = answer.run.data

\* C3 witness: the agent run raised and the fallback was returned.
C3_Witness ==
    /\ answer.called
    /\ ~answer.running
    /\ answer.run.kind = "exc"
    /\ answer.result.kind = "return"
    /\ answer.result.response.cause = "API Error"

\* A call finished on an HTTP status outside 2xx.
StatusFailure(op) ==
    /\ outcome.call.op = op
    /\ outcome.resp.kind = "http"
    /\ outcome.resp.status \notin 200..299

\* The condition of the taxonomy a failure message stands for.
Condition(error) ==
    CASE error.text = "Invalid API key or authentication failed. Debug: " -> "AuthenticationFailed"
      [] error.text = "Rate limit exceeded. Please try again later. Debug: " -> "RateLimited"
      [] error.text = "Article with PII {pii} not found. Debug: " -> "NotFound"
      [] error.text \in {"API request failed: ", "Failed to retrieve article: "}
            -> "GenericUpstreamFailure"
      [] error.text \in {"Search failed: ", "Article retrieval failed: "} -> "CatchAll"
      [] OTHER -> "none"

\* C4: get_article on HTTP 404 raises the not-found failure naming the
\* requested PII; every other status outside 2xx raises the generic
\* 'Failed to retrieve article' failure; neither is replaced by the catch-all
\* 'Article retrieval failed' failure.
C4_NotFoundOn404 ==
    StatusFailure("get")
        => /\ outcome.result.kind = "raise"
           /\ outcome.resp.status = 404
                => /\ Condition(outcome.result.error) = "NotFound"
                   /\ outcome.result.error.pii = outcome.call.pii
           /\ outcome.resp.status # 404
                => Condition(outcome.result.error) = "GenericUpstreamFailure"

\* C4 witness: a get_article call has met a 404.
C4_Witness ==
    /\ StatusFailure("get")
    /\ outcome.resp.status = 404
    /\ outcome.result.error.pii = "S1"

\* C5: for search and for get_article, 401 gives AuthenticationFailed and 429
\* gives RateLimited; every other status outside 2xx gives
\* GenericUpstreamFailure, except 404 on get_article.
C5_StatusTaxonomy ==
    \A op \in {"search", "get"} :
        StatusFailure(op)
            => /\ outcome.result.kind = "raise"
               /\ outcome.resp.status = 401
                    => Condition(outcome.result.error) = "AuthenticationFailed"
               /\ outcome.resp.status = 429
                    => Condition(outcome.result.error) = "RateLimited"
               /\ (outcome.resp.status \notin {401, 429} /\ ~(op = "get" /\ outcome.resp.status = 404))
                    => Condition(outcome.result.error) = "GenericUpstreamFailure"

\* The upstream response of the finished call is no normalizable 2xx JSON body.
UpstreamFailed ==
    \/ outcome.resp.kind # "http"
    \/ outcome.resp.status \notin 200..299
    \/ ~outcome.resp.json
    \/ outcome.call.op = "search" /\ ~_parse_search_results(outcome.resp.data).ok
    \/ outcome.call.op = "get" /\ ~_parse_article(outcome.resp.data).ok

\* C6: a finished search or get_article call either returned Articles or
\* raised one failure with a message.  On a status outside 2xx, a transport
\* error, an undecodable body or a normalization error it raised and handed
\* over no Article; a failure raised for an HTTP status is not the catch-all
\* failure.
C6_ResultOrTypedFailure ==
    outcome.call.op # "none"
        => /\ outcome.result.kind \in {"return", "raise"}
           /\ outcome.result.kind = "return" <=> ~UpstreamFailed
           /\ outcome.result.kind = "return" => outcome.result.error = NoMsg
           /\ outcome.result.kind = "raise"
                => /\ outcome.result.articles = <<>>
                   /\ outcome.result.error.text # ""
           /\ (outcome.resp.kind = "http" /\ outcome.resp.status \notin 200..299)
                => Condition(outcome.result.error) \notin {"CatchAll", "none"}

\* C6 witness: a search met a normalization error and raised.
C6_Witness ==
    /\ outcome.call.op = "search"
    /\ outcome.resp.status = 200 /\ outcome.resp.json
    /\ ~_parse_search_results(outcome.resp.data).ok
    /\ outcome.result.kind = "raise"

\* C7: the count parameter of a search request is 200 when limit > 200 and
\* limit otherwise, and never exceeds 200.
C7_CountClamped ==
    /\ \A call \in BagToSet(inflight) :
        call.op = "search"
            => /\ call.sent.count = (IF call.limit > 200 THEN 200 ELSE call.limit)
               /\ call.sent.count <= 200
    /\ request.count <= 200

\* C7 witness: a search with a limit above 200 is on the wire.
C7_Witness ==
    /\ \E call \in BagToSet(inflight) :
        /\ call.op = "search"
        /\ call.limit > 200
        /\ call.sent.count = 200
        /\ request = call.sent

\* The 2xx JSON body of the finished search carries zero entries.
ZeroEntries ==
    /\ outcome.call.op = "search"
    /\ outcome.resp.kind = "http" /\ outcome.resp.status \in 200..299 /\ outcome.resp.json
    /\ \/ ~outcome.resp.data.envelope
       \/ outcome.resp.data.entry = Missing
       \/ outcome.resp.data.entry = List(<<>>)

\* C8: a search whose 2xx response has an empty entry list, no entry key or
\* no search-results envelope returns the empty sequence.
C8_ZeroEntriesEmpty ==
    ZeroEntries => outcome.result.kind = "return" /\ outcome.result.articles = <<>>

\* C8 witness: a search got an envelope without the entry key.
C8_Witness ==
    /\ ZeroEntries
    /\ outcome.resp.data.envelope
    /\ outcome.resp.data.entry = Missing
    /\ outcome.result.kind = "return"

\* The creators of the document drawn: of each search entry, or of the core data.
DocCreators ==
    IF doc.kind = "search"
    THEN IF doc.search.envelope /\ IsList(doc.search.entry)
         THEN [i \in 1..Len(doc.search.entry.l) |-> doc.search.entry.l[i].creator]
         ELSE <<>>
    ELSE IF doc.kind = "article" THEN <<CoreData(doc.article).creator>>
    ELSE <<>>

\* The i-th creator of the document was normalized to these authors.
YieldsAuthors(i, authors) ==
    /\ normalized.result.ok
    /\ Len(normalized.result.articles) >= i
    /\ normalized.result.articles[i].authors = authors

\* The document drawn is EntryA but for its creator.
OnlyCreatorVaries ==
    \/ doc.kind = "search" /\ doc.search.envelope /\ IsList(doc.search.entry)
        /\ Len(doc.search.entry.l) = 1
        /\ doc.search.entry.l[1] = [EntryA EXCEPT !.creator = doc.search.entry.l[1].creator]
    \/ doc.kind = "article" /\ doc.article.envelope
        /\ doc.article.coredata = [EntryA EXCEPT !.creator = doc.article.coredata.creator]

\* C9 as stated: a creator that is a plain string yields exactly that string
\* as the only author.
C9_StringCreatorAnyString ==
    (normalized.done /\ OnlyCreatorVaries)
        => \A i \in 1..Len(DocCreators) :
                IsStr(DocCreators[i]) => YieldsAuthors(i, <<DocCreators[i].s>>)

\* C9 amended: a creator that is a non-empty plain string yields exactly
\* that string as the only author, and a creator that is the empty string
\* yields no author, in both normalizers.
C9_StringCreatorNonEmpty ==
    (normalized.done /\ OnlyCreatorVaries)
        => \A i \in 1..Len(DocCreators) :
                /\ (IsStr(DocCreators[i]) /\ DocCreators[i].s # "")
                        => YieldsAuthors(i, <<DocCreators[i].s>>)
                /\ DocCreators[i] = Str("") => YieldsAuthors(i, <<>>)

\* C9 witness: a search entry with a string creator was normalized.
C9_Witness ==
    /\ normalized.done /\ OnlyCreatorVaries
    /\ doc.kind = "search"
    /\ DocCreators = <<Str("Author One")>>
    /\ YieldsAuthors(1, <<"Author One">>)

\* A creator list of plain strings and of objects with a text sub-field.
IsMixedList(creator) ==
    /\ IsList(creator)
    /\ \A j \in 1..Len(creator.l) : creator.l[j].t \in {"str", "obj"}

\* C10: a creator that is a list of plain strings and objects with a text
\* sub-field yields one author per element (the string, or the object's
\* text), in list order, the empty ones left out, in both normalizers.
C10_MixedListCreator ==
    (normalized.done /\ OnlyCreatorVaries)
        => \A i \in 1..Len(DocCreators) :
                IsMixedList(DocCreators[i])
                    => YieldsAuthors(i, FilterSeq([j \in 1..Len(DocCreators[i].l) |->
                                                        DocCreators[i].l[j].s], {""}))

\* C11: normalizing a search-results envelope yields one Article per entry,
\* in entry order; the envelope of the two fixture entries (a string
\* creator, then a creator that is a list of objects with text) yields two
\* Articles with the titles and authors of the fixture.
C11_OneArticlePerEntry ==
    (normalized.done /\ doc.kind = "search" /\ doc.search.envelope /\ IsList(doc.search.entry)
        /\ \A i \in 1..Len(doc.search.entry.l) : doc.search.entry.l[i] \in {EntryA, EntryB, EntryC})
        => /\ normalized.result.ok
           /\ Len(normalized.result.articles) = Len(doc.search.entry.l)
           /\ \A i \in 1..Len(doc.search.entry.l) :
                /\ normalized.result.articles[i].title = doc.search.entry.l[i].title.s
                /\ doc.search.entry.l[i] = EntryA
                    => normalized.result.articles[i].authors = <<"Author One">>
                /\ doc.search.entry.l[i] = EntryB
                    => normalized.result.articles[i].authors = <<"Author Two", "Author Three">>
                /\ doc.search.entry.l[i] = EntryC
                    => normalized.result.articles[i].authors = <<"Author Two", "Author Three">>

\* The value configured for a setting: the argument if one is given, else
\* the environment's.
Configured(arg, fromEnv) == IF arg \notin NoKey THEN arg ELSE fromEnv

\* The values headers give for a header name.
HeaderValues(headers, name) == {h[2] : h \in {g \in headers : g[1] = name}}

\* The values a token header must have: the configured token, or none.
TokenValues(token) == IF token \in NoKey THEN {} ELSE {token}

\* C12: the headers of a constructed client hold X-ELS-APIKey with the
\* effective API key, X-ELS-Authtoken exactly when an auth token is
\* configured and X-ELS-Insttoken exactly when an institutional token is
\* configured, each with the configured value; every request sent carries
\* exactly the client's headers.
C12_HeadersFollowConfiguration ==
    client.state = "ok"
        => /\ HeaderValues(client.headers, "X-ELS-APIKey")
                = {Configured(client.args.api_key, env.ELSEVIER_API_KEY)}
           /\ HeaderValues(client.headers, "X-ELS-Authtoken")
                = TokenValues(Configured(client.args.auth_token, env.ELSEVIER_AUTH_TOKEN))
           /\ HeaderValues(client.headers, "X-ELS-Insttoken")
                = TokenValues(Configured(client.args.inst_token, env.ELSEVIER_INST_TOKEN))
           /\ request.op # "none" => request.headers = client.headers
           /\ outcome.call.op # "none" => request.headers = client.headers

\* C12 witness: a request went out under a client with an institutional
\* token given as argument and no auth token.
C12_Witness ==
    /\ client.state = "ok"
    /\ outcome.call.op = "search"
    /\ client.args.inst_token = "test_token"
    /\ <<"X-ELS-Insttoken", "test_token">> \in request.headers
    /\ HeaderValues(request.headers, "X-ELS-Authtoken") = {}

\* A call that came through an agent tool has finished with a failure of
\* the client operation.
ToolCallFailed ==
    /\ outcome.call.via = "tool"
    /\ outcome.result.kind = "raise"

\* C13 as stated: the agent's tool wrappers hand a failure of search or
\* get_article on to their caller instead of returning an empty list or no
\* article.
C13_ToolsPropagateFailure ==
    ToolCallFailed => outcome.tool.kind = "raise"

\* C13 amended: the client operations raise on every upstream failure; the
\* agent tools search_articles and get_article_details turn that failure
\* into a normal return value (the empty list, no article) and hand a
\* successful result on unchanged.
C13_ToolsAbsorbFailure ==
    /\ (outcome.call.op # "none" /\ UpstreamFailed) => outcome.result.kind = "raise"
    /\ ToolCallFailed
        => /\ outcome.tool.kind = "return"
           /\ outcome.tool.articles = <<>>
           /\ outcome.tool.error = NoMsg
    /\ (outcome.call.via = "tool" /\ outcome.result.kind = "return")
        => outcome.tool = outcome.result

\* C13 witness: the search tool met an HTTP 500 and returned the empty list.
C13_Witness ==
    /\ ToolCallFailed
    /\ outcome.call.op = "search"
    /\ outcome.resp.status = 500
    /\ outcome.tool.kind = "return"

\* The JSON objects the document's Articles are made from, in order.
DocObjects ==
    IF doc.kind = "search"
    THEN IF doc.search.envelope /\ IsList(doc.search.entry) THEN doc.search.entry.l ELSE <<>>
    ELSE IF doc.kind = "article" THEN <<CoreData(doc.article)>>
    ELSE <<>>

\* The first source of the abstract of the i-th object: prism:teaser of a
\* search entry, the raw text of originalText of a full-text article.
PrimaryAbstract(i) ==
    IF doc.kind = "search" THEN DocObjects[i].teaser
    ELSE IF doc.article.envelope /\ doc.article.original = "dict" THEN doc.article.raw
    ELSE Missing

\* Every Article of the document was produced.
AllNormalized ==
    /\ normalized.done
    /\ normalized.result.ok
    /\ Len(normalized.result.articles) = Len(DocObjects)

\* An Article field is None when its source is missing and "" only when its
\* source is "".
AbsentNotEmpty(source, field) ==
    /\ source = Missing => field = None
    /\ field = "" => source = Str("")

\* C14: in both normalizers an optional Article field whose source field is
\* missing is None, never ""; a field is "" only if the input carried it as
\* the empty string.
C14_MissingIsAbsent ==
    AllNormalized
        => \A i \in 1..Len(DocObjects) :
            LET e == DocObjects[i]
                a == normalized.result.articles[i]
            IN /\ AbsentNotEmpty(e.doi, a.doi)
               /\ AbsentNotEmpty(e.pii, a.pii)
               /\ AbsentNotEmpty(e.publicationName, a.publication_name)
               /\ AbsentNotEmpty(e.coverDate, a.publication_date)
               /\ e.link = Missing => a.url = None
               /\ a.url = "" => e.link = List(<<Obj("")>>)
               /\ (PrimaryAbstract(i) = Missing /\ e.description = Missing) => a.abstract = None
               /\ a.abstract = "" => (PrimaryAbstract(i) = Str("") \/ e.description = Str(""))

\* C14 witness: an entry without any field was normalized to an Article
\* whose optional fields are all None.
C14_Witness ==
    /\ AllNormalized
    /\ DocObjects = <<EmptyObject>>
    /\ normalized.result.articles[1].doi = None
    /\ normalized.result.articles[1].abstract = None
    /\ normalized.result.articles[1].url = None

\* C15: in both normalizers an input without the title field still yields
\* its Article, with the title 'No title'; a title that is a string is taken
\* over as it is.
C15_TitlePlaceholder ==
    /\ (normalized.done /\ Len(DocObjects) = 1
            /\ DocObjects[1] \in {EmptyObject, [EntryA EXCEPT !.title = Missing]})
        => AllNormalized
    /\ AllNormalized
        => \A i \in 1..Len(DocObjects) :
            /\ DocObjects[i].title = Missing
                => normalized.result.articles[i].title = "No title"
            /\ IsStr(DocObjects[i].title)
                => normalized.result.articles[i].title = DocObjects[i].title.s

\* C15 witness: a full-text article without a title was normalized.
C15_Witness ==
    /\ AllNormalized
    /\ doc.kind = "article"
    /\ DocObjects = <<[EntryA EXCEPT !.title = Missing]>>
    /\ normalized.result.articles[1].title = "No title"

\* C16: a creator that is a single object with a text sub-field yields
\* exactly that text as the only author when it is non-empty, and no author
\* when it is empty or missing, in both normalizers.
C16_ObjectCreator ==
    (normalized.done /\ OnlyCreatorVaries)
        => \A i \in 1..Len(DocCreators) :
            /\ (DocCreators[i].t = "obj" /\ DocCreators[i].s # "")
                => YieldsAuthors(i, <<DocCreators[i].s>>)
            /\ (DocCreators[i] \in {Obj(""), ObjNoText}) => YieldsAuthors(i, <<>>)

\* The strings of the model that are empty or whitespace only.
BlankStrings == {"", " "}

\* C17: every author of every Article the normalizers produce is a string
\* that is neither empty nor blank, whatever the creator field was.
C17_AuthorsNonBlank ==
    AllNormalized
        => \A i \in 1..Len(DocObjects) :
            \A j \in 1..Len(normalized.result.articles[i].authors) :
                normalized.result.articles[i].authors[j] \notin BlankStrings

\* C18: the abstract is the primary source field when it has a value, else
\* the alternate field (dc:description), and None only when neither has a
\* value; a primary field that is null or empty does not stop the fallback.
\* The primary field is prism:teaser of a search entry and the raw text of
\* originalText of a full-text article.
C18_AbstractFallback ==
    AllNormalized
        => \A i \in 1..Len(DocObjects) :
            LET primary == PrimaryAbstract(i)
                alternate == DocObjects[i].description
                abstract == normalized.result.articles[i].abstract
            IN /\ (IsStr(primary) /\ primary.s # "") => abstract = primary.s
               /\ (~(IsStr(primary) /\ primary.s # "") /\ IsStr(alternate) /\ alternate.s # "")
                    => abstract = alternate.s
               /\ abstract = None
                    => /\ ~(IsStr(primary) /\ primary.s # "")
                       /\ ~(IsStr(alternate) /\ alternate.s # "")

\* C19: every invocation of search or get_article opens one connection and
\* issues one request, and its connection is closed by the time it returns
\* or raises, however its try block was left: the connections open are
\* those of the invocations that have not returned or raised yet (suspended
\* at the request or in the exit of async with), every invocation that has
\* returned or raised has closed its connection, and when none is left no
\* connection is open.
C19_OneConnectionPerCall ==
    /\ conn.opened = conn.calls
    /\ nreq = conn.calls
    /\ conn.open = BagCardinality(inflight)
    /\ conn.closed = conn.calls - BagCardinality(inflight)
    /\ inflight = EmptyBag => conn.open = 0 /\ conn.closed = conn.opened

\* C19 witness: two invocations were made, the try block left last was that
\* of a get_article whose request met a transport exception, both have
\* raised or returned, and no connection is open.
C19_Witness ==
    /\ outcome.call.op = "get"
    /\ outcome.resp.kind = "transport"
    /\ outcome.result.kind = "raise"
    /\ conn.calls = 2
    /\ inflight = EmptyBag
    /\ conn.closed = 2
    /\ conn.open = 0

\* A call has finished with a failure.
CallFailed == outcome.call.op # "none" /\ outcome.result.kind = "raise"

\* The failure message carries the upstream status, body and headers.
FullDetail(error) ==
    /\ error.status = outcome.resp.status
    /\ error.body = outcome.resp.text
    /\ error.hdrs

\* The failure message carries no status, body or headers.
NoDetail(error) == error.status = -1 /\ error.body = <<>> /\ ~error.hdrs

\* C20 as stated: with debug mode on, every failure message carries the
\* upstream status code, body and headers; with debug mode off it carries
\* no status code, no body, no headers and no underlying exception text.
C20_DetailOnlyInDebug ==
    CallFailed
        => /\ client.debug => FullDetail(outcome.result.error)
           /\ ~client.debug
                => NoDetail(outcome.result.error) /\ outcome.result.error.cause = ""

\* The exception the try block of the invocation raised.
TryRaised ==
    IF outcome.call.op = "search" THEN SearchTry(outcome.resp) ELSE GetTry(outcome.resp)

\* C20 amended: the failures for 401 and 429 (search) and 404 (get_article)
\* carry status, body and headers with debug mode on and none of them with
\* it off; the failure for any other status always carries the status code,
\* the first 500 characters of the body only with debug mode on and never
\* the headers; the catch-all failure is its fixed text followed by str(e)
\* of the underlying exception, with debug mode on and with it off, and the
\* handler puts no status code, body or headers of a response into it.
C20_DetailByFailureKind ==
    CallFailed
        => LET error == outcome.result.error
               kind == Condition(error)
           IN /\ kind \in {"AuthenticationFailed", "RateLimited", "NotFound",
                           "GenericUpstreamFailure", "CatchAll"}
              /\ kind \in {"AuthenticationFailed", "RateLimited", "NotFound"}
                    => /\ client.debug => FullDetail(error)
                       /\ ~client.debug => NoDetail(error)
                       /\ error.cause = ""
              /\ kind = "GenericUpstreamFailure"
                    => /\ error.status = outcome.resp.status
                       /\ error.body = (IF client.debug
                                         THEN Prefix(outcome.resp.text, BodyShown)
                                         ELSE <<>>)
                       /\ ~error.hdrs
                       /\ error.cause = ""
              /\ kind = "CatchAll"
                    => /\ NoDetail(error)
                       /\ error.cause = TryRaised.text
                       /\ outcome.resp.kind = "transport"
                            => error.cause = outcome.resp.exctext

\* C20 witness: a search met a 401 with debug mode off and its message
\* carries no upstream detail.
C20_Witness ==
    /\ CallFailed
    /\ ~client.debug
    /\ outcome.call.op = "search"
    /\ outcome.resp.status = 401
    /\ NoDetail(outcome.result.error)

====
